---- MODULE Spec2Model ----
(***************************************************************************)
(* A model of the lnk crate's ShellLink aggregate (src/src/lib.rs), its    *)
(* StringData codec (src/src/stringdata.rs, src/src/strings/) and its      *)
(* error mapping (src/src/error.rs).                                       *)
(*                                                                         *)
(* Texts are sequences of Unicode scalar values, bytes are numbers 0..255. *)
(* A file is its 76-byte header (one record, absent when the file is       *)
(* shorter) followed by a body of elements: single bytes, and the          *)
(* structures whose codecs are not part of the modelled sources            *)
(* (LinkTargetIdList, LinkInfo, ExtraData blocks), each carried as one     *)
(* opaque element.                                                         *)
(***************************************************************************)
EXTENDS Integers, Sequences, FiniteSets, TLC

VARIABLES link, file, last, parsed, origin, script, muts

vars == <<link, file, last, parsed, origin, script, muts>>

(***************************************************************************)
(* Bounds of the model.                                                    *)
(***************************************************************************)
\* longest text handed to a mutator or stored in an input file
MaxTextLen == 2
\* number of mutating calls on one aggregate
MaxMut == 2
\* how far beyond the 16-bit limit the long texts reach
MaxOver == 1
\* longest text handed to write_sized_string on its own
MaxCodecLen == 3

(***************************************************************************)
(* Option<T>: None is the empty sequence, Some(x) the one-element one.     *)
(***************************************************************************)
None == <<>>

Some(x) == <<x>>

is_some(o) == Len(o) = 1

is_none(o) == Len(o) = 0

(***************************************************************************)
(* u16 and the character encodings (encoding_rs).                          *)
(***************************************************************************)
\* u16::MAX, the largest value u16::try_from accepts
U16_MAX == 65535

\* the two bytes of a u16 written little-endian
u16_write_le(n) == <<n % 256, n \div 256>>

\* the u16 read little-endian from two bytes
u16_read_le(lo, hi) == lo + 256 * hi

\* the UTF-8 bytes of one scalar value
Utf8Char(c) ==
    IF c < 128 THEN <<c>>
    ELSE IF c < 2048 THEN <<192 + (c \div 64), 128 + (c % 64)>>
    ELSE IF c < 65536
         THEN <<224 + (c \div 4096), 128 + ((c \div 64) % 64), 128 + (c % 64)>>
    ELSE <<240 + (c \div 262144), 128 + ((c \div 4096) % 64),
           128 + ((c \div 64) % 64), 128 + (c % 64)>>

RECURSIVE Utf8Range(_, _, _)
\* the UTF-8 bytes of s[lo..hi]
Utf8Range(s, lo, hi) ==
    IF lo > hi THEN <<>>
    ELSE IF lo = hi THEN Utf8Char(s[lo])
    ELSE LET m == (lo + hi) \div 2
         IN  Utf8Range(s, lo, m) \o Utf8Range(s, m + 1, hi)

\* the bytes a Rust String holds
Utf8Bytes(s) == Utf8Range(s, 1, Len(s))

\* String::len: the length in bytes of the UTF-8 representation (one byte
\* per scalar value, and one more for each of the thresholds it reaches)
str_len(s) ==
    LET two == SelectSeq(s, LAMBDA c : c >= 128)
        three == SelectSeq(two, LAMBDA c : c >= 2048)
        four == SelectSeq(three, LAMBDA c : c >= 65536)
    IN  Len(s) + Len(two) + Len(three) + Len(four)

\* windows-1252, bytes 0x80..0x9F (index: byte - 127)
Cp1252High ==
    << 8364, 129, 8218, 402, 8222, 8230, 8224, 8225,
       710, 8240, 352, 8249, 338, 141, 381, 143,
       144, 8216, 8217, 8220, 8221, 8226, 8211, 8212,
       732, 8482, 353, 8250, 339, 157, 382, 376 >>

\* the scalar value a windows-1252 byte decodes to (every byte decodes)
Cp1252DecodeByte(b) ==
    IF b < 128 THEN b
    ELSE IF b < 160 THEN Cp1252High[b - 127]
    ELSE b

RECURSIVE DecimalDigits(_)
\* the ASCII decimal digits of n
DecimalDigits(n) ==
    IF n < 10 THEN <<48 + n>>
    ELSE DecimalDigits(n \div 10) \o <<48 + (n % 10)>>

\* the bytes windows-1252 encodes one scalar value to; an unmappable one
\* becomes the numeric character reference &#N;
Cp1252EncodeChar(c) ==
    IF c < 128 THEN <<c>>
    ELSE IF \E b \in 128..255 : Cp1252DecodeByte(b) = c
         THEN <<CHOOSE b \in 128..255 : Cp1252DecodeByte(b) = c>>
    ELSE <<38, 35>> \o DecimalDigits(c) \o <<59>>

RECURSIVE Cp1252Range(_, _, _)
\* the windows-1252 bytes of s[lo..hi]
Cp1252Range(s, lo, hi) ==
    IF lo > hi THEN <<>>
    ELSE IF lo = hi THEN Cp1252EncodeChar(s[lo])
    ELSE LET m == (lo + hi) \div 2
         IN  Cp1252Range(s, lo, m) \o Cp1252Range(s, m + 1, hi)

\* Encoding::encode(s).0: the bytes in the OUTPUT encoding of enc, which is
\* UTF-8 for UTF_16LE (encoding_rs has no UTF-16 encoder)
encode(enc, s) ==
    IF enc = "UTF_16LE" THEN Utf8Bytes(s)
    ELSE Cp1252Range(s, 1, Len(s))

RECURSIVE Utf16Decode(_, _)
\* UTF_16LE decoding of bytes from position i on: the text and had_errors
\* (an unpaired surrogate or a trailing odd byte is replaced by U+FFFD)
Utf16Decode(bytes, i) ==
    IF i > Len(bytes) THEN [text |-> <<>>, had_errors |-> FALSE]
    ELSE IF i = Len(bytes) THEN [text |-> <<65533>>, had_errors |-> TRUE]
    ELSE LET u == u16_read_le(bytes[i], bytes[i + 1])
             high == u >= 55296 /\ u < 56320
             low == u >= 56320 /\ u < 57344
             v == IF i + 3 <= Len(bytes)
                  THEN u16_read_le(bytes[i + 2], bytes[i + 3])
                  ELSE 0
             paired == high /\ i + 3 <= Len(bytes) /\ v >= 56320 /\ v < 57344
             rest == Utf16Decode(bytes, IF paired THEN i + 4 ELSE i + 2)
         IN  IF paired
             THEN [text |-> <<65536 + (u - 55296) * 1024 + (v - 56320)>> \o rest.text,
                   had_errors |-> rest.had_errors]
             ELSE IF high \/ low
             THEN [text |-> <<65533>> \o rest.text, had_errors |-> TRUE]
             ELSE [text |-> <<u>> \o rest.text, had_errors |-> rest.had_errors]

RECURSIVE Utf8Decode(_, _)
\* UTF_8 decoding of bytes from position i on: the text and had_errors (a
\* byte that starts no sequence, or a sequence cut short, is replaced by
\* U+FFFD)
Utf8Decode(bytes, i) ==
    IF i > Len(bytes) THEN [text |-> <<>>, had_errors |-> FALSE]
    ELSE LET b == bytes[i]
             need == IF b < 128 THEN 0
                     ELSE IF b >= 194 /\ b <= 223 THEN 1
                     ELSE IF b >= 224 /\ b <= 239 THEN 2
                     ELSE IF b >= 240 /\ b <= 244 THEN 3
                     ELSE -1
             lo == IF b = 224 THEN 160 ELSE IF b = 240 THEN 144 ELSE 128
             hi == IF b = 237 THEN 159 ELSE IF b = 244 THEN 143 ELSE 191
             cont(k) == /\ i + k <= Len(bytes)
                        /\ bytes[i + k] >= (IF k = 1 THEN lo ELSE 128)
                        /\ bytes[i + k] <= (IF k = 1 THEN hi ELSE 191)
             matched == IF need < 1 \/ ~cont(1) THEN 0
                        ELSE IF need < 2 \/ ~cont(2) THEN 1
                        ELSE IF need < 3 \/ ~cont(3) THEN 2
                        ELSE 3
             value == IF need = 0 THEN b
                      ELSE IF need = 1 THEN (b - 192) * 64 + (bytes[i + 1] - 128)
                      ELSE IF need = 2
                      THEN (b - 224) * 4096 + (bytes[i + 1] - 128) * 64
                             + (bytes[i + 2] - 128)
                      ELSE (b - 240) * 262144 + (bytes[i + 1] - 128) * 4096
                             + (bytes[i + 2] - 128) * 64 + (bytes[i + 3] - 128)
             rest == Utf8Decode(bytes, i + 1 + matched)
         IN  IF need >= 0 /\ matched = need
             THEN [text |-> <<value>> \o rest.text, had_errors |-> rest.had_errors]
             ELSE [text |-> <<65533>> \o rest.text, had_errors |-> TRUE]

\* Encoding::for_bom: the encoding a byte order mark at the start of bytes
\* announces and the length of the mark (0 if there is none)
for_bom(bytes) ==
    IF Len(bytes) >= 3 /\ bytes[1] = 239 /\ bytes[2] = 187 /\ bytes[3] = 191
    THEN [enc |-> "UTF_8", len |-> 3]
    ELSE IF Len(bytes) >= 2 /\ bytes[1] = 255 /\ bytes[2] = 254
    THEN [enc |-> "UTF_16LE", len |-> 2]
    ELSE IF Len(bytes) >= 2 /\ bytes[1] = 254 /\ bytes[2] = 255
    THEN [enc |-> "UTF_16BE", len |-> 2]
    ELSE [enc |-> "", len |-> 0]

\* Encoding::decode_without_bom_handling(bytes): the text and had_errors;
\* UTF_16BE is UTF_16LE with the bytes of each unit exchanged
decode_without_bom_handling(enc, bytes) ==
    IF enc = "UTF_16LE" THEN Utf16Decode(bytes, 1)
    ELSE IF enc = "UTF_16BE"
    THEN Utf16Decode([i \in 1..Len(bytes) |->
                        IF i % 2 = 1
                        THEN (IF i < Len(bytes) THEN bytes[i + 1] ELSE bytes[i])
                        ELSE bytes[i - 1]], 1)
    ELSE IF enc = "UTF_8" THEN Utf8Decode(bytes, 1)
    ELSE [text |-> [i \in 1..Len(bytes) |-> Cp1252DecodeByte(bytes[i])],
          had_errors |-> FALSE]

\* Encoding::decode(bytes): the text and had_errors. A byte order mark at
\* the start of bytes is removed and decides the encoding, whatever enc is
decode(enc, bytes) ==
    LET bom == for_bom(bytes)
    IN  IF bom.len > 0
        THEN decode_without_bom_handling(bom.enc, SubSeq(bytes, bom.len + 1, Len(bytes)))
        ELSE decode_without_bom_handling(enc, bytes)

(***************************************************************************)
(* LinkFlags and StringEncoding.                                           *)
(***************************************************************************)
LinkFlags ==
    { "HAS_LINK_TARGET_ID_LIST", "HAS_LINK_INFO", "HAS_NAME",
      "HAS_RELATIVE_PATH", "HAS_WORKING_DIR", "HAS_ARGUMENTS",
      "HAS_ICON_LOCATION", "IS_UNICODE" }

\* the &'static Encoding values the model passes around
Encodings == {"WINDOWS_1252", "UTF_16LE"}

\* the fields of StringData in declaration order
StringFields ==
    << "name_string", "relative_path", "working_dir",
       "command_line_arguments", "icon_location" >>

\* the LinkFlags bit each StringData field is read and written under
expected_flag(f) ==
    CASE f = "name_string" -> "HAS_NAME"
      [] f = "relative_path" -> "HAS_RELATIVE_PATH"
      [] f = "working_dir" -> "HAS_WORKING_DIR"
      [] f = "command_line_arguments" -> "HAS_ARGUMENTS"
      [] f = "icon_location" -> "HAS_ICON_LOCATION"

\* StringEncoding::from
StringEncoding_from(link_flags, default_codepage) ==
    IF "IS_UNICODE" \in link_flags
    THEN [tag |-> "Unicode", cp |-> "UTF_16LE"]
    ELSE [tag |-> "CodePage", cp |-> default_codepage]

\* StringEncoding::encoding
StringEncoding_encoding(e) ==
    IF e.tag = "CodePage" THEN e.cp ELSE "UTF_16LE"

(***************************************************************************)
(* Files.                                                                  *)
(***************************************************************************)
\* one byte of a file body
U8(b) == [k |-> "u8", v |-> b]

\* bytes as body elements
U8s(bytes) == [i \in 1..Len(bytes) |-> U8(bytes[i])]

\* whether body[pos..pos+n-1] exists and holds bytes only
HasBytes(body, pos, n) ==
    /\ pos + n - 1 <= Len(body)
    /\ \A i \in pos..(pos + n - 1) : body[i].k = "u8"

\* the bytes body[pos..pos+n-1]
BytesAt(body, pos, n) == [i \in 1..n |-> body[pos + i - 1].v]

(***************************************************************************)
(* The sized strings of StringData.                                        *)
(***************************************************************************)
\* LinkFlags::set(other, value)
LinkFlags_set(link_flags, other, value) ==
    IF value THEN link_flags \cup {other} ELSE link_flags \ {other}

\* write_sized_string with the length cast to u16 (s.len() as u16) instead
\* of converted by u16::try_from
write_sized_string_len_cast(s, link_flags, flag, encoding) ==
    IF flag \in link_flags
    THEN IF is_none(s) THEN [res |-> "panic", bytes |-> <<>>]
         ELSE LET size == str_len(s[1]) % (U16_MAX + 1)
                  e == StringEncoding_from(link_flags, encoding)
                  bytes == IF e.tag = "CodePage" THEN encode(e.cp, s[1])
                           ELSE encode("UTF_16LE", s[1])
              IN  [res |-> "Ok", bytes |-> u16_write_le(size) \o bytes]
    ELSE IF is_some(s) THEN [res |-> "panic", bytes |-> <<>>]
         ELSE [res |-> "Ok", bytes |-> <<>>]

\* write_sized_string: how it ends ("Ok", "Custom" for the binrw error,
\* "panic" for a failed assert!) and the bytes it wrote
write_sized_string(s, link_flags, flag, encoding) ==
    IF flag \in link_flags
    THEN IF is_none(s) THEN [res |-> "panic", bytes |-> <<>>]
         ELSE LET size == str_len(s[1])
                  e == StringEncoding_from(link_flags, encoding)
                  bytes == IF e.tag = "CodePage" THEN encode(e.cp, s[1])
                           ELSE encode("UTF_16LE", s[1])
              IN  IF size > U16_MAX THEN [res |-> "Custom", bytes |-> <<>>]
                  ELSE [res |-> "Ok", bytes |-> u16_write_le(size) \o bytes]
    ELSE IF is_some(s) THEN [res |-> "panic", bytes |-> <<>>]
         ELSE [res |-> "Ok", bytes |-> <<>>]

\* parse_sized_string at position pos of a body: how it ends ("Ok",
\* "UnexpectedEof" for a failed read, "AssertFail" for an undecodable
\* string, "panic" for an arithmetic overflow in a build with overflow
\* checks), the value and the position after it
parse_sized_string(body, pos, link_flags, flag, encoding, overflow_checks) ==
    IF flag \in link_flags
    THEN IF ~HasBytes(body, pos, 2)
         THEN [res |-> "UnexpectedEof", val |-> None, pos |-> pos]
         ELSE LET count_characters == u16_read_le(body[pos].v, body[pos + 1].v)
                  e == StringEncoding_from(link_flags, encoding)
                  overflow == e.tag = "Unicode" /\ count_characters * 2 > U16_MAX
                  n == IF e.tag = "CodePage" THEN count_characters
                       ELSE (count_characters * 2) % (U16_MAX + 1)
                  d == decode(StringEncoding_encoding(e), BytesAt(body, pos + 2, n))
              IN  IF overflow /\ overflow_checks
                  THEN [res |-> "panic", val |-> None, pos |-> pos + 2]
                  ELSE IF ~HasBytes(body, pos + 2, n)
                  THEN [res |-> "UnexpectedEof", val |-> None, pos |-> pos + 2]
                  ELSE IF d.had_errors
                  THEN [res |-> "AssertFail", val |-> None, pos |-> pos + 2 + n]
                  ELSE [res |-> "Ok", val |-> Some(d.text), pos |-> pos + 2 + n]
    ELSE [res |-> "Ok", val |-> None, pos |-> pos]

\* StringData with every field absent (Default)
StringData_default == [f \in {StringFields[i] : i \in 1..Len(StringFields)} |-> None]

RECURSIVE StringData_write_from(_, _, _, _, _)
\* the derived BinWrite of StringData from field i on, after bytes were
\* written: the fields in order, stopping at the first that does not end
\* "Ok"
StringData_write_from(sd, link_flags, encoding, i, bytes) ==
    IF i > Len(StringFields) THEN [res |-> "Ok", bytes |-> bytes]
    ELSE LET f == StringFields[i]
             w == write_sized_string(sd[f], link_flags, expected_flag(f), encoding)
         IN  IF w.res /= "Ok" THEN [res |-> w.res, bytes |-> bytes]
             ELSE StringData_write_from(sd, link_flags, encoding, i + 1,
                                        bytes \o w.bytes)

\* StringData::write_le_args
StringData_write(sd, link_flags, encoding) ==
    StringData_write_from(sd, link_flags, encoding, 1, <<>>)

RECURSIVE StringData_read_from(_, _, _, _, _, _, _)
\* the derived BinRead of StringData from field i on
StringData_read_from(body, pos, link_flags, encoding, overflow_checks, sd, i) ==
    IF i > Len(StringFields) THEN [res |-> "Ok", val |-> sd, pos |-> pos]
    ELSE LET f == StringFields[i]
             r == parse_sized_string(body, pos, link_flags, expected_flag(f),
                                     encoding, overflow_checks)
         IN  IF r.res /= "Ok"
             THEN [res |-> r.res, val |-> sd, pos |-> r.pos]
             ELSE StringData_read_from(body, r.pos, link_flags, encoding,
                                       overflow_checks, [sd EXCEPT ![f] = r.val], i + 1)

\* StringData::read_le_args
StringData_read(body, pos, link_flags, encoding, overflow_checks) ==
    StringData_read_from(body, pos, link_flags, encoding, overflow_checks,
                         StringData_default, 1)

(***************************************************************************)
(* The header and the structures whose codecs are in other files of the    *)
(* crate.                                                                  *)
(***************************************************************************)
\* the value of the header's first four bytes (the header size, 0x4C)
HeaderMagic == 76

\* the class identifier every shell link carries
LinkCLSID == "00021401-0000-0000-C000-000000000046"

\* the 76 bytes ShellLinkHeader::write_le produces
ShellLinkHeader_write(header) ==
    [magic |-> HeaderMagic, clsid |-> LinkCLSID, link_flags |-> header.link_flags]

\* ShellLinkHeader::read_le on the first 76 bytes of a file
ShellLinkHeader_read(f) ==
    IF is_none(f.header)
    THEN [res |-> "UnexpectedEof", val |-> [link_flags |-> {}]]
    ELSE IF f.header[1].magic /= HeaderMagic \/ f.header[1].clsid /= LinkCLSID
    THEN [res |-> "AssertFail", val |-> [link_flags |-> {}]]
    ELSE [res |-> "Ok", val |-> [link_flags |-> f.header[1].link_flags]]

\* LinkTargetIdList::read_le / LinkInfo::read_le_args at position pos: the
\* element there must be a structure of that kind
Opaque_read(body, pos, kind) ==
    IF pos > Len(body) THEN [res |-> "UnexpectedEof", val |-> None, pos |-> pos]
    ELSE IF body[pos].k /= kind THEN [res |-> "AssertFail", val |-> None, pos |-> pos]
    ELSE [res |-> "Ok", val |-> Some(body[pos].v), pos |-> pos + 1]

RECURSIVE ExtraData_read(_, _, _)
\* ExtraData::read_le_args: blocks up to the terminal block or the end of
\* the file
ExtraData_read(body, pos, blocks) ==
    IF pos > Len(body) THEN [res |-> "Ok", val |-> blocks, pos |-> pos]
    ELSE IF body[pos].k = "TerminalBlock"
    THEN [res |-> "Ok", val |-> blocks, pos |-> pos + 1]
    ELSE IF body[pos].k = "ExtraDataBlock"
    THEN ExtraData_read(body, pos + 1, Append(blocks, body[pos].v))
    ELSE [res |-> "AssertFail", val |-> blocks, pos |-> pos]

(***************************************************************************)
(* Errors.                                                                 *)
(***************************************************************************)
\* Error::while_parsing: be is the binrw error, a kind and whether the
\* reader wrapped it in a backtrace (then it is no longer binrw::Error::Io)
while_parsing(context, be) ==
    IF be.kind = "UnexpectedEof" /\ ~be.backtrace
    THEN [res |-> "UnexpectedEof", ctx |-> context]
    ELSE [res |-> "BinReadError", ctx |-> context]

\* Error::while_writing
while_writing(context, be) == [res |-> "BinWriteError", ctx |-> context]

(***************************************************************************)
(* The ShellLink aggregate.                                                *)
(***************************************************************************)
\* the link flags ShellLinkHeader::default() may carry
DefaultLinkFlags == {{}, {"IS_UNICODE"}}

\* ShellLink::default(), for the header's default link flags
default(link_flags) ==
    [ header |-> [link_flags |-> link_flags],
      linktarget_id_list |-> None,
      link_info |-> None,
      string_data |-> StringData_default,
      extra_data |-> <<>>,
      encoding |-> IF "IS_UNICODE" \in link_flags THEN "UTF_16LE" ELSE "WINDOWS_1252" ]

\* ShellLinkHeader::update_link_flags
update_link_flags(l, flag, value) ==
    [l EXCEPT !.header.link_flags = LinkFlags_set(@, flag, value)]

\* the setters getset derives for StringData
StringData_set(l, field, value) == [l EXCEPT !.string_data[field] = value]

\* ShellLink::with_encoding
with_encoding(e) ==
    link' = IF e.tag = "Unicode"
            THEN [link EXCEPT !.header.link_flags = LinkFlags_set(@, "IS_UNICODE", TRUE),
                              !.encoding = "UTF_16LE"]
            ELSE [link EXCEPT !.header.link_flags = LinkFlags_set(@, "IS_UNICODE", FALSE),
                              !.encoding = e.cp]

\* set_name with the flag set whatever the argument
set_name_flag_always(name) ==
    link' = StringData_set(update_link_flags(link, "HAS_NAME", TRUE),
                           "name_string", name)

\* ShellLink::set_name
set_name(name) ==
    link' = StringData_set(update_link_flags(link, "HAS_NAME", is_some(name)),
                           "name_string", name)

\* ShellLink::set_relative_path
set_relative_path(relative_path) ==
    link' = StringData_set(update_link_flags(link, "HAS_RELATIVE_PATH",
                                             is_some(relative_path)),
                           "relative_path", relative_path)

\* ShellLink::set_working_dir
set_working_dir(working_dir) ==
    link' = StringData_set(update_link_flags(link, "HAS_WORKING_DIR",
                                             is_some(working_dir)),
                           "working_dir", working_dir)

\* set_arguments updating the flag of the icon location
set_arguments_wrong_flag(arguments) ==
    link' = StringData_set(update_link_flags(link, "HAS_ICON_LOCATION",
                                             is_some(arguments)),
                           "command_line_arguments", arguments)

\* ShellLink::set_arguments
set_arguments(arguments) ==
    link' = StringData_set(update_link_flags(link, "HAS_ARGUMENTS",
                                             is_some(arguments)),
                           "command_line_arguments", arguments)

\* ShellLink::set_icon_location
set_icon_location(icon_location) ==
    link' = StringData_set(update_link_flags(link, "HAS_ICON_LOCATION",
                                             is_some(icon_location)),
                           "icon_location", icon_location)

\* header_mut().update_link_flags(flag, value), called from outside
header_mut_update_link_flags(flag, value) ==
    link' = update_link_flags(link, flag, value)

\* string_data_mut().set_<field>(value), called from outside
string_data_mut_set(field, value) ==
    link' = StringData_set(link, field, value)

\* *linktarget_id_list_mut() = None
linktarget_id_list_mut_take ==
    link' = [link EXCEPT !.linktarget_id_list = None]

\* *link_info_mut() = None
link_info_mut_take ==
    link' = [link EXCEPT !.link_info = None]

\* link_target with the separator pushed whatever the base ends with
link_target_always_separator(l) ==
    IF is_some(l.link_info)
    THEN LET info == l.link_info[1]
             network == info.link_info_flags.has_common_network_relative_link_and_path_suffix
             unicode_or_local ==
                 IF is_some(info.local_base_path_unicode)
                 THEN info.local_base_path_unicode
                 ELSE info.local_base_path
             common_path ==
                 IF is_some(info.common_path_suffix_unicode)
                 THEN info.common_path_suffix_unicode[1]
                 ELSE info.common_path_suffix
             base_path ==
                 IF network THEN info.common_network_relative_link[1].name
                 ELSE unicode_or_local[1]
         IN  IF network /\ is_none(info.common_network_relative_link)
             THEN [res |-> "panic", val |-> <<>>]
             ELSE IF ~network /\ is_none(unicode_or_local)
             THEN [res |-> "panic", val |-> <<>>]
             ELSE IF Len(common_path) /= 0
             THEN [res |-> "Some", val |-> base_path \o <<92>> \o common_path]
             ELSE [res |-> "Some", val |-> base_path]
    ELSE [res |-> "None", val |-> <<>>]

\* ShellLink::link_target: Some(path), None, or the panic of a failed
\* expect; 92 is the backslash
link_target(l) ==
    IF is_some(l.link_info)
    THEN LET info == l.link_info[1]
             network == info.link_info_flags.has_common_network_relative_link_and_path_suffix
             unicode_or_local ==
                 IF is_some(info.local_base_path_unicode)
                 THEN info.local_base_path_unicode
                 ELSE info.local_base_path
             common_path ==
                 IF is_some(info.common_path_suffix_unicode)
                 THEN info.common_path_suffix_unicode[1]
                 ELSE info.common_path_suffix
             base_path ==
                 IF network THEN info.common_network_relative_link[1].name
                 ELSE unicode_or_local[1]
             ends_with == Len(base_path) > 0 /\ base_path[Len(base_path)] = 92
         IN  IF network /\ is_none(info.common_network_relative_link)
             THEN [res |-> "panic", val |-> <<>>]
             ELSE IF ~network /\ is_none(unicode_or_local)
             THEN [res |-> "panic", val |-> <<>>]
             ELSE IF Len(common_path) /= 0
             THEN [res |-> "Some",
                   val |-> (IF ends_with THEN base_path ELSE base_path \o <<92>>)
                             \o common_path]
             ELSE [res |-> "Some", val |-> base_path]
    ELSE [res |-> "None", val |-> <<>>]

\* what ShellLink::save does to the file and how it ends. A failed assert!
\* of write_sized_string ends it in a panic; an error or a panic drops the
\* BufWriter, which flushes what was written.
save_outcome(l) ==
    LET header == Some(ShellLinkHeader_write(l.header))
        link_flags == l.header.link_flags
        w == StringData_write(l.string_data, link_flags, l.encoding)
        written == [header |-> header, body |-> U8s(w.bytes)]
    IN  IF w.res = "Ok" THEN [res |-> "Ok", ctx |-> "", file |-> written]
        ELSE IF w.res = "panic"
        THEN [res |-> "panic", ctx |-> "StringData", file |-> written]
        ELSE while_writing("StringData", w) @@ [file |-> written]

\* ShellLink::save; a build whose panics abort drops nothing, and leaves the
\* file File::create made empty
save ==
    \E r \in {save_outcome(link)}, unwind \in BOOLEAN :
        /\ file' = IF r.res = "panic" /\ ~unwind THEN [header |-> None, body |-> <<>>]
                   ELSE r.file
        /\ last' = [op |-> "save", res |-> r.res, ctx |-> r.ctx]
        /\ UNCHANGED link

\* what ShellLink::open returns for a file: how it ends, the component it
\* failed in, and the aggregate
open_outcome(f, encoding, overflow_checks, backtrace) ==
    LET h == ShellLinkHeader_read(f)
        link_flags == h.val.link_flags
        idl == IF "HAS_LINK_TARGET_ID_LIST" \in link_flags
               THEN Opaque_read(f.body, 1, "LinkTargetIdList")
               ELSE [res |-> "Ok", val |-> None, pos |-> 1]
        li == IF "HAS_LINK_INFO" \in link_flags
              THEN Opaque_read(f.body, idl.pos, "LinkInfo")
              ELSE [res |-> "Ok", val |-> None, pos |-> idl.pos]
        sd == StringData_read(f.body, li.pos, link_flags, encoding, overflow_checks)
        ed == ExtraData_read(f.body, sd.pos, <<>>)
        err(context, kind) ==
            IF kind = "panic" THEN [res |-> "panic", ctx |-> context]
            ELSE while_parsing(context, [kind |-> kind, backtrace |-> backtrace])
        none == default({})
    IN  IF h.res /= "Ok" THEN err("ShellLinkHeader", h.res) @@ [link |-> none]
        ELSE IF idl.res /= "Ok" THEN err("LinkTargetIdList", idl.res) @@ [link |-> none]
        ELSE IF li.res /= "Ok" THEN err("LinkInfo", li.res) @@ [link |-> none]
        ELSE IF sd.res /= "Ok" THEN err("StringData", sd.res) @@ [link |-> none]
        ELSE IF ed.res /= "Ok" THEN err("ExtraData", ed.res) @@ [link |-> none]
        ELSE [res |-> "Ok", ctx |-> "",
              link |-> [ header |-> h.val,
                         linktarget_id_list |-> idl.val,
                         link_info |-> li.val,
                         string_data |-> sd.val,
                         extra_data |-> ed.val,
                         encoding |-> IF "IS_UNICODE" \in link_flags
                                      THEN "UTF_16LE" ELSE encoding ]]

\* ShellLink::open: the aggregate is the caller's only when it ends Ok
open(encoding, overflow_checks, backtrace) ==
    \E r \in {open_outcome(file, encoding, overflow_checks, backtrace)} :
        /\ link' = IF r.res = "Ok" THEN r.link ELSE link
        /\ last' = [op |-> "open", res |-> r.res, ctx |-> r.ctx]
        /\ UNCHANGED file

\* the components of a shell link file in the order open reads them
Components ==
    << "ShellLinkHeader", "LinkTargetIdList", "LinkInfo", "StringData", "ExtraData" >>

\* open reading LinkInfo whatever the header says
open_reads_link_info_always(component, link_flags) ==
    CASE component = "LinkTargetIdList" -> "HAS_LINK_TARGET_ID_LIST" \in link_flags
      [] component = "LinkInfo" -> TRUE
      [] OTHER -> TRUE

\* whether open reads a component, given the link flags of the header it
\* has read
open_reads(component, link_flags) ==
    CASE component = "LinkTargetIdList" -> "HAS_LINK_TARGET_ID_LIST" \in link_flags
      [] component = "LinkInfo" -> "HAS_LINK_INFO" \in link_flags
      [] OTHER -> TRUE

\* a call of open at its first statement: the arguments, the position in
\* the file, the components read so far (reads), and the locals
open_call(encoding, overflow_checks, backtrace) ==
    [ pc |-> "ShellLinkHeader", encoding |-> encoding,
      overflow_checks |-> overflow_checks, backtrace |-> backtrace,
      pos |-> 1, reads |-> <<>>, link |-> default({}),
      res |-> "", ctx |-> "" ]

\* one component of open: s is the call, f the file. The component at s.pc
\* is read if open_reads says so; an error ends the call ("Err"), a panic
\* ends the program ("Abort"), the last component builds the aggregate
\* ("Ok")
open_step(s, f) ==
    LET link_flags == s.link.header.link_flags
        c == s.pc
        r == CASE c = "ShellLinkHeader" -> ShellLinkHeader_read(f) @@ [pos |-> 1]
               [] c = "LinkTargetIdList" -> Opaque_read(f.body, s.pos, "LinkTargetIdList")
               [] c = "LinkInfo" -> Opaque_read(f.body, s.pos, "LinkInfo")
               [] c = "StringData" ->
                    StringData_read(f.body, s.pos, link_flags, s.encoding,
                                    s.overflow_checks)
               [] c = "ExtraData" -> ExtraData_read(f.body, s.pos, <<>>)
        err == IF r.res = "panic" THEN [res |-> "panic", ctx |-> c]
               ELSE while_parsing(c, [kind |-> r.res, backtrace |-> s.backtrace])
        stored ==
            CASE c = "ShellLinkHeader" -> [s.link EXCEPT !.header = r.val]
              [] c = "LinkTargetIdList" -> [s.link EXCEPT !.linktarget_id_list = r.val]
              [] c = "LinkInfo" -> [s.link EXCEPT !.link_info = r.val]
              [] c = "StringData" -> [s.link EXCEPT !.string_data = r.val]
              [] c = "ExtraData" ->
                   [s.link EXCEPT !.extra_data = r.val,
                                  !.encoding = IF "IS_UNICODE" \in link_flags
                                               THEN "UTF_16LE" ELSE s.encoding]
        next == CASE c = "ShellLinkHeader" -> "LinkTargetIdList"
                  [] c = "LinkTargetIdList" -> "LinkInfo"
                  [] c = "LinkInfo" -> "StringData"
                  [] c = "StringData" -> "ExtraData"
                  [] c = "ExtraData" -> "Ok"
    IN  IF ~open_reads(c, link_flags)
        THEN [s EXCEPT !.pc = next]
        ELSE IF r.res /= "Ok"
        THEN [s EXCEPT !.pc = IF r.res = "panic" THEN "Abort" ELSE "Err",
                       !.res = err.res, !.ctx = err.ctx,
                       !.reads = Append(@, [c |-> c, ok |-> FALSE])]
        ELSE [s EXCEPT !.pc = next, !.pos = r.pos, !.link = stored,
                       !.res = IF next = "Ok" THEN "Ok" ELSE "",
                       !.reads = Append(@, [c |-> c, ok |-> TRUE])]

(***************************************************************************)
(* Inputs: texts, and the files found on disk.                             *)
(***************************************************************************)
\* the scalar values texts are made of: 'A', U+00E9 and U+65E5
Chars == {65, 233, 26085}

\* the texts of at most n scalar values
TextsUpTo(n) == UNION {[1..k -> Chars] : k \in 0..n}

\* the texts handed to the codec
Texts == TextsUpTo(MaxTextLen)

\* the texts stored in the input files
ShortTexts == TextsUpTo(MaxTextLen - 1)

\* the texts handed to the mutators of a long-lived aggregate
SetterTexts == {<<>>, <<65>>, <<26085, 233>>}

\* the scalar values of the codec's texts: those, U+672C and U+8A9E
CodecChars == Chars \cup {26412, 35486}

\* the texts handed to write_sized_string on its own
CodecTexts == UNION {[1..k -> CodecChars] : k \in 0..MaxCodecLen}

\* a text of n times the scalar value c
Repeat(c, n) == [i \in 1..n |-> c] \o <<>>

\* texts around the 16-bit limit: one short, one just beyond it
LimitTexts == {<<65>>, Repeat(65, U16_MAX + 1)}

\* the texts handed to set_name: those, and texts of one-byte and of
\* two-byte characters further beyond the limit
NameTexts ==
    LimitTexts \cup {Repeat(65, U16_MAX + k) : k \in 1..MaxOver}
               \cup {Repeat(233, U16_MAX + MaxOver)}

\* the texts handed to set_icon_location: those, and the longest text whose
\* length in bytes is a u16
IconTexts == LimitTexts \cup {Repeat(65, U16_MAX)}

\* Option<String> arguments
OptionsOf(T) == {None} \cup {Some(t) : t \in T}

\* the encodings a caller chooses between
StringEncodings ==
    {[tag |-> "Unicode", cp |-> "UTF_16LE"]} \cup
    {[tag |-> "CodePage", cp |-> cp] : cp \in Encodings}

\* the UTF-16LE bytes of one scalar value
Utf16Char(c) ==
    IF c < 65536 THEN u16_write_le(c)
    ELSE u16_write_le(55296 + ((c - 65536) \div 1024)) \o
         u16_write_le(56320 + ((c - 65536) % 1024))

RECURSIVE Utf16Bytes(_)
\* the UTF-16LE bytes of a text
Utf16Bytes(s) ==
    IF Len(s) = 0 THEN <<>> ELSE Utf16Char(Head(s)) \o Utf16Bytes(Tail(s))

\* a sized string as the format defines it: the count of characters (UTF-16
\* code units, or code-page bytes), then the characters
SizedString(o, unicode) ==
    IF is_none(o) THEN <<>>
    ELSE LET bytes == IF unicode THEN Utf16Bytes(o[1])
                      ELSE encode("WINDOWS_1252", o[1])
         IN  u16_write_le(IF unicode THEN Len(bytes) \div 2 ELSE Len(bytes)) \o bytes

\* the link flags that describe what an aggregate holds
FlagsFor(unicode, idl, li, sd) ==
    (IF unicode THEN {"IS_UNICODE"} ELSE {}) \cup
    (IF is_some(idl) THEN {"HAS_LINK_TARGET_ID_LIST"} ELSE {}) \cup
    (IF is_some(li) THEN {"HAS_LINK_INFO"} ELSE {}) \cup
    {expected_flag(StringFields[i]) : i \in {j \in 1..Len(StringFields) :
                                              is_some(sd[StringFields[j]])}}

\* a well-formed shell link file: every structure its header flags
\* announce, in file order, and the terminal block
WellFormedFile(unicode, idl, li, sd, ed) ==
    [ header |-> Some([magic |-> HeaderMagic, clsid |-> LinkCLSID,
                       link_flags |-> FlagsFor(unicode, idl, li, sd)]),
      body |->
          [i \in 1..Len(idl) |-> [k |-> "LinkTargetIdList", v |-> idl[i]]] \o
          [i \in 1..Len(li) |-> [k |-> "LinkInfo", v |-> li[i]]] \o
          U8s(SizedString(sd.name_string, unicode) \o
              SizedString(sd.relative_path, unicode) \o
              SizedString(sd.working_dir, unicode) \o
              SizedString(sd.command_line_arguments, unicode) \o
              SizedString(sd.icon_location, unicode)) \o
          [i \in 1..Len(ed) |-> [k |-> "ExtraDataBlock", v |-> ed[i]]] \o
          <<[k |-> "TerminalBlock", v |-> 0]>> ]

\* the string data of the input files: nothing, one field, or all five
InputStringData ==
    {StringData_default} \cup
    {[StringData_default EXCEPT ![StringFields[i]] = Some(t)] :
        i \in 1..Len(StringFields), t \in ShortTexts} \cup
    {[f \in DOMAIN StringData_default |-> Some(t)] : t \in ShortTexts}

\* whether windows-1252 has a byte for every scalar value of the texts
CodePageText(sd) ==
    \A i \in 1..Len(StringFields) :
        is_some(sd[StringFields[i]]) =>
            \A j \in 1..Len(sd[StringFields[i]][1]) : sd[StringFields[i]][1][j] < 256

\* the well-formed files: every combination of the other structures around
\* no string data, and string data in a file with none or all of them; a
\* code-page file holds windows-1252 text only
WellFormedFiles ==
    UNION { { WellFormedFile(unicode, idl, li, StringData_default, ed) :
                idl \in {None, Some(1)}, li \in {None, Some(1)},
                ed \in {<<>>, <<1>>} } \cup
            { WellFormedFile(unicode, o, o, sd, o) :
                o \in {None, Some(1)},
                sd \in {d \in InputStringData : unicode \/ CodePageText(d)} }
          : unicode \in BOOLEAN }

\* files that are not shell links, and files cut short
MalformedFiles ==
    {[header |-> None, body |-> <<>>]} \cup
    {[f EXCEPT !.header[1].magic = HeaderMagic + 1] :
        f \in {g \in WellFormedFiles : Len(g.body) <= 2}} \cup
    {[f EXCEPT !.header[1].clsid = "00000000-0000-0000-0000-000000000000"] :
        f \in {g \in WellFormedFiles : Len(g.body) <= 2}} \cup
    {[f EXCEPT !.body = SubSeq(@, 1, Len(@) - 2)] :
        f \in {g \in WellFormedFiles : Len(g.body) >= 2 /\ Len(g.body) <= 5}}

InputFiles == WellFormedFiles \cup MalformedFiles

\* the counts a file can carry in front of a string: small ones, the first
\* two whose double does not fit 16 bits, and the largest
CraftedCounts == {0, 1, 2, 3, (U16_MAX + 1) \div 2, (U16_MAX + 1) \div 2 + 1, U16_MAX}

\* the bytes a file can carry after the count: nothing, "A" and U+1F600 in
\* UTF-16LE, a lone high surrogate, a single byte, and bytes that start with
\* the byte order mark of UTF-8, UTF-16BE or UTF-16LE
CraftedTails ==
    { <<>>, <<65, 0>>, <<61, 216, 0, 222>>, <<0, 216>>, <<65>>,
      <<239, 187, 191, 216, 128, 65>>, <<254, 255, 0, 216, 0, 65>>,
      <<255, 254, 0, 216>>, <<255, 254, 65, 0>> }

\* a file whose only string is the name: its count, the bytes after it, and
\* the terminal block
CraftedFile(unicode, count, tail) ==
    [ header |-> Some([magic |-> HeaderMagic, clsid |-> LinkCLSID,
                       link_flags |-> {"HAS_NAME"} \cup
                                      (IF unicode THEN {"IS_UNICODE"} ELSE {})]),
      body |-> U8s(u16_write_le(count) \o tail) \o <<[k |-> "TerminalBlock", v |-> 0]>> ]

\* files written by other programs: any count in front of any bytes, and a
\* Unicode link whose name is 32768 times "A" in UTF-16LE
CraftedFiles ==
    { CraftedFile(unicode, count, tail) :
        unicode \in BOOLEAN, count \in CraftedCounts, tail \in CraftedTails } \cup
    { CraftedFile(TRUE, (U16_MAX + 1) \div 2,
                  [i \in 1..(U16_MAX + 1) |-> IF i % 2 = 1 THEN 65 ELSE 0] \o <<>>) }

(***************************************************************************)
(* The state machine: one aggregate and one file.                          *)
(*   link    the aggregate the caller holds                                *)
(*   file    the file at the path given to open and save                   *)
(*   last    the last call and how it ended                                *)
(*   parsed  what parse_sized_string returned (SpecCodec)                  *)
(*   origin  the aggregate open returned, while link and file derive from  *)
(*           it by save and open alone                                     *)
(*   script  the position in a fixed sequence of calls (SpecMinimal,       *)
(*           SpecCodec)                                                    *)
(*   muts    the number of mutating calls made                             *)
(***************************************************************************)
NoOrigin == [st |-> "none", link |-> default({}), encoding |-> "WINDOWS_1252"]

NoScript == [pc |-> "off", e |-> [tag |-> "Unicode", cp |-> "UTF_16LE"], name |-> <<>>]

NoParsed == [res |-> "none", val |-> None]

NoLast == [op |-> "default", res |-> "Ok", ctx |-> ""]

NoFile == [header |-> None, body |-> <<>>]

\* a panic ends the program
Alive == last.res /= "panic"

\* a fresh aggregate and a file found on disk
Init ==
    /\ link \in {default(fl) : fl \in DefaultLinkFlags}
    /\ file \in InputFiles
    /\ last = NoLast
    /\ parsed = NoParsed
    /\ origin = NoOrigin
    /\ script = NoScript
    /\ muts = 0

\* a fresh aggregate and no file yet
InitFresh ==
    /\ link \in {default(fl) : fl \in DefaultLinkFlags}
    /\ file = NoFile
    /\ last = NoLast
    /\ parsed = NoParsed
    /\ origin = NoOrigin
    /\ script = NoScript
    /\ muts = 0

\* a mutating call on the aggregate
Call(op, A) ==
    /\ Alive
    /\ A
    /\ last' = [op |-> op, res |-> "Ok", ctx |-> ""]
    /\ origin' = NoOrigin
    /\ UNCHANGED <<file, parsed, script>>

\* a mutating call counted against MaxMut
Mutate(op, A) == muts < MaxMut /\ Call(op, A) /\ muts' = muts + 1

SetName == \E v \in OptionsOf(SetterTexts) : Mutate("set_name", set_name(v))

SetRelativePath ==
    \E v \in OptionsOf(SetterTexts) : Mutate("set_relative_path", set_relative_path(v))

SetWorkingDir ==
    \E v \in OptionsOf(SetterTexts) : Mutate("set_working_dir", set_working_dir(v))

SetArguments ==
    \E v \in OptionsOf(SetterTexts) : Mutate("set_arguments", set_arguments(v))

SetIconLocation ==
    \E v \in OptionsOf(SetterTexts) : Mutate("set_icon_location", set_icon_location(v))

WithEncoding ==
    \E e \in StringEncodings : Mutate("with_encoding", with_encoding(e))

HeaderMut ==
    \E flag \in LinkFlags, value \in BOOLEAN :
        Mutate("header_mut", header_mut_update_link_flags(flag, value))

StringDataMut ==
    \E i \in 1..Len(StringFields), v \in OptionsOf(SetterTexts) :
        Mutate("string_data_mut", string_data_mut_set(StringFields[i], v))

LinkTargetIdListMut == Mutate("linktarget_id_list_mut", linktarget_id_list_mut_take)

LinkInfoMut == Mutate("link_info_mut", link_info_mut_take)

\* save, and what it means for the aggregate that came from open
Save ==
    /\ Alive
    /\ save
    /\ origin' = IF last'.res = "Ok" /\ origin.st \in {"opened", "saved"}
                 THEN [origin EXCEPT !.st = "saved"]
                 ELSE NoOrigin
    /\ UNCHANGED <<parsed, script, muts>>

\* open; after a save of an aggregate that came from open of a well-formed
\* file, with the same fallback code page, it is the reopening of a round
\* trip
Open ==
    /\ Alive
    /\ \E encoding \in Encodings, overflow_checks \in BOOLEAN, backtrace \in BOOLEAN :
          /\ open(encoding, overflow_checks, backtrace)
          /\ origin' =
               IF origin.st = "saved" /\ origin.encoding = encoding
               THEN [origin EXCEPT !.st = IF last'.res = "Ok" THEN "reopened" ELSE "failed"]
               ELSE IF last'.res = "Ok" /\ file \in WellFormedFiles
               THEN [st |-> "opened", link |-> link', encoding |-> encoding]
               ELSE IF last'.res = "Ok" THEN NoOrigin
               ELSE origin
    /\ UNCHANGED <<parsed, script, muts>>

\* files read, written and read again, and the aggregate reached into
Next ==
    \/ HeaderMut
    \/ LinkTargetIdListMut
    \/ LinkInfoMut
    \/ Save
    \/ Open

Spec == Init /\ [][Next]_vars

\* every mutating call on a fresh aggregate, and save
NextMut ==
    \/ SetName
    \/ SetRelativePath
    \/ SetWorkingDir
    \/ SetArguments
    \/ SetIconLocation
    \/ WithEncoding
    \/ HeaderMut
    \/ StringDataMut
    \/ Save

SpecMut == InitFresh /\ [][NextMut]_vars

\* the five set_* mutators alone, any number of times
AnySetName == \E v \in OptionsOf(SetterTexts) : Call("set_name", set_name(v))

AnySetRelativePath ==
    \E v \in OptionsOf(SetterTexts) : Call("set_relative_path", set_relative_path(v))

AnySetWorkingDir ==
    \E v \in OptionsOf(SetterTexts) : Call("set_working_dir", set_working_dir(v))

AnySetArguments ==
    \E v \in OptionsOf(SetterTexts) : Call("set_arguments", set_arguments(v))

AnySetIconLocation ==
    \E v \in OptionsOf(SetterTexts) : Call("set_icon_location", set_icon_location(v))

NextSetters ==
    \/ (AnySetName /\ UNCHANGED muts)
    \/ (AnySetRelativePath /\ UNCHANGED muts)
    \/ (AnySetWorkingDir /\ UNCHANGED muts)
    \/ (AnySetArguments /\ UNCHANGED muts)
    \/ (AnySetIconLocation /\ UNCHANGED muts)

SpecSetters == InitFresh /\ [][NextSetters]_vars

\* the calls of tests/create-read-blank.rs, for every encoding and name:
\* default().with_encoding(e), set_name(Some(name)), save, open(e.encoding())
InitMinimal ==
    /\ link \in {default(fl) : fl \in DefaultLinkFlags}
    /\ file = NoFile
    /\ last = NoLast
    /\ parsed = NoParsed
    /\ origin = NoOrigin
    /\ script = [NoScript EXCEPT !.pc = "start"]
    /\ muts = 0

MinWithEncoding ==
    /\ script.pc = "start"
    /\ \E e \in StringEncodings :
          /\ with_encoding(e)
          /\ script' = [script EXCEPT !.pc = "encoded", !.e = e]
    /\ last' = [op |-> "with_encoding", res |-> "Ok", ctx |-> ""]
    /\ UNCHANGED <<file, parsed, origin, muts>>

MinSetName ==
    /\ script.pc = "encoded"
    /\ \E name \in Texts :
          /\ set_name(Some(name))
          /\ script' = [script EXCEPT !.pc = "named", !.name = name]
    /\ last' = [op |-> "set_name", res |-> "Ok", ctx |-> ""]
    /\ UNCHANGED <<file, parsed, origin, muts>>

MinSave ==
    /\ script.pc = "named"
    /\ save
    /\ script' = [script EXCEPT !.pc = "saved"]
    /\ UNCHANGED <<parsed, origin, muts>>

\* the test expects save to have succeeded; open follows whenever save
\* returned
MinOpen ==
    /\ script.pc = "saved"
    /\ Alive
    /\ \E overflow_checks \in BOOLEAN, backtrace \in BOOLEAN :
          open(StringEncoding_encoding(script.e), overflow_checks, backtrace)
    /\ script' = [script EXCEPT !.pc = "opened"]
    /\ UNCHANGED <<parsed, origin, muts>>

NextMinimal ==
    \/ MinWithEncoding
    \/ MinSetName
    \/ MinSave
    \/ MinOpen

SpecMinimal == InitMinimal /\ [][NextMinimal]_vars

\* the first, the middle and the last string field set to texts around the
\* 16-bit limit on a fresh aggregate, and save
LongSetName ==
    \E t \in NameTexts : Mutate("set_name", set_name(Some(t)))

LongSetWorkingDir ==
    \E t \in LimitTexts : Mutate("set_working_dir", set_working_dir(Some(t)))

LongSetIconLocation ==
    \E t \in IconTexts : Mutate("set_icon_location", set_icon_location(Some(t)))

NextLimit ==
    \/ LongSetName
    \/ LongSetWorkingDir
    \/ LongSetIconLocation
    \/ Save

SpecLimit == InitFresh /\ [][NextLimit]_vars

\* no aggregate yet, a file found on disk and no call of open under way
InitOpen ==
    /\ link = default({})
    /\ file \in InputFiles \cup CraftedFiles
    /\ last = NoLast
    /\ parsed = NoParsed
    /\ origin = NoOrigin
    /\ script = NoScript
    /\ muts = 0

\* open is called
OpenCall ==
    /\ script.pc = "off"
    /\ \E encoding \in Encodings, overflow_checks \in BOOLEAN, backtrace \in BOOLEAN :
          script' = open_call(encoding, overflow_checks, backtrace)
    /\ UNCHANGED <<link, file, last, parsed, origin, muts>>

\* open reads (or skips) its next component; the caller has the aggregate
\* once the last one is read, and the error as soon as one fails
OpenStep ==
    /\ script.pc \in {Components[i] : i \in 1..Len(Components)}
    /\ \E s \in {open_step(script, file)} :
          /\ script' = s
          /\ link' = IF s.pc = "Ok" THEN s.link ELSE link
          /\ last' = IF s.pc \in {"Ok", "Err", "Abort"}
                     THEN [op |-> "open", res |-> s.res, ctx |-> s.ctx]
                     ELSE last
    /\ UNCHANGED <<file, parsed, origin, muts>>

NextOpen == OpenCall \/ OpenStep

SpecOpen == InitOpen /\ [][NextOpen]_vars

\* no aggregate yet and a file written by another program
InitParse ==
    /\ link = default({})
    /\ file \in CraftedFiles
    /\ last = NoLast
    /\ parsed = NoParsed
    /\ origin = NoOrigin
    /\ script = NoScript
    /\ muts = 0

\* parse_sized_string on the name, the first string of the file
ParseName ==
    /\ script.pc = "off"
    /\ \E encoding \in Encodings, overflow_checks \in BOOLEAN :
          /\ \E r \in {parse_sized_string(file.body, 1, file.header[1].link_flags,
                                          "HAS_NAME", encoding, overflow_checks)} :
                /\ parsed' = r
                /\ last' = [op |-> "parse_sized_string",
                            res |-> IF r.res = "panic" THEN "panic" ELSE "Ok",
                            ctx |-> ""]
          /\ script' = [pc |-> "name_parsed", encoding |-> encoding,
                        overflow_checks |-> overflow_checks]
    /\ UNCHANGED <<link, file, origin, muts>>

\* open of the file
ParseOpen ==
    /\ script.pc = "off"
    /\ \E encoding \in Encodings, overflow_checks \in BOOLEAN, backtrace \in BOOLEAN :
          /\ open(encoding, overflow_checks, backtrace)
          /\ script' = [pc |-> "opened", encoding |-> encoding,
                        overflow_checks |-> overflow_checks]
    /\ UNCHANGED <<parsed, origin, muts>>

NextParse == ParseName \/ ParseOpen

SpecParse == InitParse /\ [][NextParse]_vars

\* the paths and path suffixes of a LinkInfo: empty, "A", "\", "A\", "\A"
PathTexts == {<<>>, <<65>>, <<92>>, <<65, 92>>, <<92, 65>>}

\* the LinkInfo structures LinkInfo::read_le_args returns: the local base
\* path and the CommonNetworkRelativeLink are held exactly when their bit of
\* the link info flags is set, the Unicode strings only in the extended
\* layout
LinkInfos ==
    { [ link_info_flags |->
          [ has_volume_id_and_local_base_path |-> volume,
            has_common_network_relative_link_and_path_suffix |-> network ],
        local_base_path |-> lbp,
        local_base_path_unicode |-> lbpu,
        common_network_relative_link |-> cnrl,
        common_path_suffix |-> cps,
        common_path_suffix_unicode |-> cpsu ] :
        volume \in BOOLEAN, network \in BOOLEAN,
        lbp \in OptionsOf(PathTexts), lbpu \in OptionsOf(PathTexts),
        cnrl \in OptionsOf({[name |-> n] : n \in PathTexts}),
        cps \in PathTexts, cpsu \in OptionsOf(PathTexts) }

\* whether a LinkInfo holds what its flags announce
LinkInfoRead(info) ==
    /\ is_some(info.local_base_path)
          <=> info.link_info_flags.has_volume_id_and_local_base_path
    /\ is_some(info.local_base_path_unicode)
          => info.link_info_flags.has_volume_id_and_local_base_path
    /\ is_some(info.common_network_relative_link)
          <=> info.link_info_flags.has_common_network_relative_link_and_path_suffix

\* an aggregate as open returns it, with or without a LinkInfo
InitTarget ==
    /\ \/ link = default({})
       \/ \E info \in {i \in LinkInfos : LinkInfoRead(i)} :
             link = [default({"HAS_LINK_INFO"}) EXCEPT !.link_info = Some(info)]
    /\ file = NoFile
    /\ last = NoLast
    /\ parsed = NoParsed
    /\ origin = NoOrigin
    /\ script = NoScript
    /\ muts = 0

\* a call of link_target on the aggregate
LinkTarget ==
    /\ Alive
    /\ last.op /= "link_target"
    /\ \E r \in {link_target(link)} :
          /\ parsed' = r
          /\ last' = [op |-> "link_target", res |-> IF r.res = "panic" THEN "panic" ELSE "Ok",
                      ctx |-> ""]
    /\ UNCHANGED <<link, file, origin, script, muts>>

NextTarget == LinkTarget

SpecTarget == InitTarget /\ [][NextTarget]_vars

\* one string field through the codec: the name of an aggregate written by
\* write_sized_string under HAS_NAME and read back by parse_sized_string
\* with the same flags and encoding
InitCodec ==
    /\ \E s \in OptionsOf(CodecTexts), e \in Encodings,
          fl \in SUBSET {"HAS_NAME", "IS_UNICODE"} :
          link = [default(fl) EXCEPT !.string_data.name_string = s, !.encoding = e]
    /\ file = NoFile
    /\ last = NoLast
    /\ parsed = NoParsed
    /\ origin = NoOrigin
    /\ script = [NoScript EXCEPT !.pc = "start"]
    /\ muts = 0

CodecWrite ==
    /\ script.pc = "start"
    /\ \E w \in {write_sized_string(link.string_data.name_string,
                                     link.header.link_flags, "HAS_NAME", link.encoding)} :
           /\ file' = [header |-> None, body |-> U8s(w.bytes)]
           /\ last' = [op |-> "write_sized_string", res |-> w.res, ctx |-> ""]
    /\ script' = [script EXCEPT !.pc = "written"]
    /\ UNCHANGED <<link, parsed, origin, muts>>

CodecParse ==
    /\ script.pc = "written"
    /\ last.res = "Ok"
    /\ \E overflow_checks \in BOOLEAN :
          \E r \in {parse_sized_string(file.body, 1, link.header.link_flags,
                                       "HAS_NAME", link.encoding, overflow_checks)} :
              /\ parsed' = [res |-> r.res, val |-> r.val]
              /\ last' = [op |-> "parse_sized_string", res |-> r.res, ctx |-> ""]
    /\ script' = [script EXCEPT !.pc = "parsed"]
    /\ UNCHANGED <<link, file, origin, muts>>

NextCodec ==
    \/ CodecWrite
    \/ CodecParse

SpecCodec == InitCodec /\ [][NextCodec]_vars

(***************************************************************************)
(* Properties.                                                             *)
(***************************************************************************)
\* whether each string field's flag is set exactly when the field holds data
StringPairing(l) ==
    \A i \in 1..Len(StringFields) :
        (expected_flag(StringFields[i]) \in l.header.link_flags)
            <=> is_some(l.string_data[StringFields[i]])

\* C1: from a fresh ShellLink, after any sequence of set_name,
\* set_relative_path, set_working_dir, set_arguments and set_icon_location
\* calls, each of the five flags is set if and only if its field is Some
\* (checked under SpecSetters, whose only steps are these calls)
C1_SettersKeepFlagsPaired == StringPairing(link)

\* C1 witness: four fields were set and the name was set and cleared again
C1_Witness ==
    /\ last.op = "set_name"
    /\ is_none(link.string_data.name_string)
    /\ "HAS_NAME" \notin link.header.link_flags
    /\ \A i \in 2..Len(StringFields) : is_some(link.string_data[StringFields[i]])
    /\ {"HAS_RELATIVE_PATH", "HAS_WORKING_DIR", "HAS_ARGUMENTS", "HAS_ICON_LOCATION"}
         \subseteq link.header.link_flags

\* the set_* mutators and with_encoding
SetterOps ==
    { "set_name", "set_relative_path", "set_working_dir", "set_arguments",
      "set_icon_location", "with_encoding" }

\* C7 as claimed: after any public mutating call, the accessors included,
\* each string field's flag is set if and only if the field holds data
C7_PairingAfterAnyMutation ==
    last.op \in SetterOps \cup {"header_mut", "string_data_mut"} => StringPairing(link)

\* C7 as amended: a set_* mutator or with_encoding called on an aggregate
\* whose string flags and fields are paired leaves them paired
C7_SettersPreservePairing ==
    [][(StringPairing(link) /\ last'.op \in SetterOps) => StringPairing(link')]_vars

\* C7 witness: a second setter call has left two fields present and paired
C7_Witness ==
    /\ last.op = "set_working_dir"
    /\ muts >= 2
    /\ is_some(link.string_data.working_dir)
    /\ is_some(link.string_data.name_string)
    /\ StringPairing(link)

\* C8: save on an aggregate in which a string field's flag and payload
\* disagree returns Error::BinWriteError and has written nothing
C8_MismatchIsAWriteError ==
    (last.op = "save" /\ ~StringPairing(link)) =>
        (last.res = "BinWriteError" /\ file = NoFile)

\* whether a file body holds the structure of that kind and value
Holds(body, kind, v) == \E i \in 1..Len(body) : body[i] = [k |-> kind, v |-> v]

\* C2: a successful save has written every structure present on the
\* aggregate: the header, the Target ID List and the Link Info when flagged,
\* the string data and the extra data
C2_SaveWritesEveryStructure ==
    (last.op = "save" /\ last.res = "Ok") =>
        /\ is_some(file.header)
        /\ ("HAS_LINK_TARGET_ID_LIST" \in link.header.link_flags
              /\ is_some(link.linktarget_id_list))
             => Holds(file.body, "LinkTargetIdList", link.linktarget_id_list[1])
        /\ ("HAS_LINK_INFO" \in link.header.link_flags /\ is_some(link.link_info))
             => Holds(file.body, "LinkInfo", link.link_info[1])
        /\ \A i \in 1..Len(link.extra_data) :
             Holds(file.body, "ExtraDataBlock", link.extra_data[i])

\* the fields of an aggregate its accessors show
Observable(l) ==
    [ header |-> l.header, linktarget_id_list |-> l.linktarget_id_list,
      link_info |-> l.link_info, string_data |-> l.string_data,
      extra_data |-> l.extra_data ]

\* C3: an aggregate obtained by open of a well-formed file, saved and
\* opened again with the same fallback code page, comes back equal in all
\* observable fields
C3_RoundTrip ==
    /\ origin.st /= "failed"
    /\ origin.st = "reopened" => Observable(link) = Observable(origin.link)

\* whether every presence flag is set exactly when its data is held
PairingAll(l) ==
    /\ StringPairing(l)
    /\ ("HAS_LINK_TARGET_ID_LIST" \in l.header.link_flags) <=> is_some(l.linktarget_id_list)
    /\ ("HAS_LINK_INFO" \in l.header.link_flags) <=> is_some(l.link_info)

\* C6: in every aggregate a successful open returns and in every aggregate
\* a successful save was called on, each of the five string flags, the
\* Target ID List flag and the Link Info flag is set if and only if the
\* aggregate holds that data
C6_PairingAtCodecBoundary ==
    (last.op \in {"open", "save"} /\ last.res = "Ok") => PairingAll(link)

\* C10: open of a file whose magic or class identifier is not the fixed
\* constant fails with Error::NotAShellLinkError
C10_MagicCheck ==
    ( /\ last.op = "open"
      /\ is_some(file.header)
      /\ (file.header[1].magic /= HeaderMagic \/ file.header[1].clsid /= LinkCLSID) )
        => last.res = "NotAShellLinkError"

\* C4: default().with_encoding(e), set_name(Some(name)), save and
\* open(e.encoding()) succeed, and the aggregate opened holds the name, no
\* other string field, no Target ID List and no Link Info
C4_MinimalLink ==
    /\ (script.pc = "saved" => last.res = "Ok")
    /\ (script.pc = "opened" =>
          /\ last.res = "Ok"
          /\ link.string_data.name_string = Some(script.name)
          /\ \A i \in 2..Len(StringFields) : is_none(link.string_data[StringFields[i]])
          /\ is_none(link.linktarget_id_list)
          /\ is_none(link.link_info))

\* whether every scalar value of a text is ASCII
IsAscii(t) == \A i \in 1..Len(t) : t[i] < 128

\* C5: ASCII-only text written under a code page, and text with characters
\* outside ASCII written under Unicode, are written by write_sized_string
\* and read back by parse_sized_string as exactly the same text
C5_EncodingFidelity ==
    LET s == link.string_data.name_string
        link_flags == link.header.link_flags
        covered ==
            /\ is_some(s)
            /\ "HAS_NAME" \in link_flags
            /\ \/ "IS_UNICODE" \notin link_flags /\ link.encoding = "WINDOWS_1252"
                     /\ IsAscii(s[1])
               \/ "IS_UNICODE" \in link_flags /\ ~IsAscii(s[1])
    IN  /\ (script.pc = "written" /\ covered) => last.res = "Ok"
        /\ (script.pc = "parsed" /\ covered) => parsed = [res |-> "Ok", val |-> s]

\* whether field i of an aggregate holds a text of more than 65535 characters
TooLong(l, i) ==
    /\ is_some(l.string_data[StringFields[i]])
    /\ Len(l.string_data[StringFields[i]][1]) > U16_MAX

\* the aggregate without its string fields from field i on
Before(l, i) ==
    [l EXCEPT !.string_data =
                 [f \in DOMAIN @ |->
                    IF \E j \in 1..(i - 1) : StringFields[j] = f THEN @[f] ELSE None],
              !.header.link_flags =
                 @ \ {expected_flag(StringFields[j]) : j \in i..Len(StringFields)}]

\* C9: save of an aggregate with a present string field of more than 65535
\* characters returns Error::BinWriteError for StringData, having written
\* the fields before it and nothing of the long one; and the count prefix
\* a save writes is the length itself, never a wrapped or truncated one
C9_LengthLimit ==
    (last.op = "save" /\ StringPairing(link)) =>
        LET long == {i \in 1..Len(StringFields) : TooLong(link, i)}
            present == {i \in 1..Len(StringFields) :
                          is_some(link.string_data[StringFields[i]])}
            first == CHOOSE i \in long : \A j \in long : i <= j
            head == CHOOSE i \in present : \A j \in present : i <= j
        IN  /\ long /= {} =>
                /\ last.res = "BinWriteError"
                /\ last.ctx = "StringData"
                /\ file.body = save_outcome(Before(link, first)).file.body
                /\ Len(file.body) <= (first - 1) * (2 + U16_MAX)
            /\ (last.res = "Ok" /\ present /= {}) =>
                /\ HasBytes(file.body, 1, 2)
                /\ u16_read_le(file.body[1].v, file.body[2].v)
                     = str_len(link.string_data[StringFields[head]][1])

\* C9 witness: save has failed on a too long working directory after it
\* wrote the one-character name in full
C9_Witness ==
    /\ last.op = "save"
    /\ last.res = "BinWriteError"
    /\ link.string_data.name_string = Some(<<65>>)
    /\ TooLong(link, 3)
    /\ Len(file.body) = 3

\* the common path suffix link_target appends: the Unicode one if present
Suffix(info) ==
    IF is_some(info.common_path_suffix_unicode)
    THEN info.common_path_suffix_unicode[1]
    ELSE info.common_path_suffix

\* whether a LinkInfo holds a local base path, Unicode or code-page
HasLocalBase(info) ==
    is_some(info.local_base_path_unicode) \/ is_some(info.local_base_path)

\* the local base path: the Unicode one if present, else the code-page one
LocalBase(info) ==
    IF is_some(info.local_base_path_unicode)
    THEN info.local_base_path_unicode[1]
    ELSE info.local_base_path[1]

\* base and suffix with exactly one backslash between them; the base alone
\* when the suffix is empty
Joined(base, suffix) ==
    IF Len(suffix) = 0 THEN base
    ELSE IF Len(base) > 0 /\ base[Len(base)] = 92 THEN base \o suffix
    ELSE base \o <<92>> \o suffix

\* C11 as claimed: for an aggregate with Link Info, link_target returns the
\* local base path (the Unicode one if present, else the code-page one)
\* joined to the common path suffix by exactly one backslash, and the base
\* unchanged when the suffix is empty
C11_TargetFromLocalBase ==
    ( /\ last.op = "link_target"
      /\ is_some(link.link_info)
      /\ HasLocalBase(link.link_info[1]) )
        => parsed = [res |-> "Some",
                     val |-> Joined(LocalBase(link.link_info[1]),
                                    Suffix(link.link_info[1]))]

\* whether the network-and-suffix bit of the link info flags is set
Network(info) ==
    info.link_info_flags.has_common_network_relative_link_and_path_suffix

\* C11 as amended: when the network-and-suffix flag is set the base is the
\* name of the CommonNetworkRelativeLink, otherwise the local base path;
\* link_target returns it joined to the suffix by exactly one backslash
C11_TargetFromFlaggedBase ==
    ( /\ last.op = "link_target"
      /\ is_some(link.link_info) )
        => LET info == link.link_info[1]
           IN  /\ (Network(info) /\ is_some(info.common_network_relative_link))
                     => parsed = [res |-> "Some",
                                  val |-> Joined(info.common_network_relative_link[1].name,
                                                 Suffix(info))]
               /\ (~Network(info) /\ HasLocalBase(info))
                     => parsed = [res |-> "Some",
                                  val |-> Joined(LocalBase(info), Suffix(info))]

\* C11 witness: a local base path ending in a backslash was joined to a
\* non-empty suffix without a second backslash
C11_Witness ==
    /\ last.op = "link_target"
    /\ is_some(link.link_info)
    /\ ~Network(link.link_info[1])
    /\ link.link_info[1].local_base_path = Some(<<65, 92>>)
    /\ is_none(link.link_info[1].local_base_path_unicode)
    /\ Suffix(link.link_info[1]) = <<65>>
    /\ parsed = [res |-> "Some", val |-> <<65, 92, 65>>]

\* C12: link_target returns None if and only if the aggregate holds no Link
\* Info, and a path for every aggregate that holds one
C12_TargetIsTotal ==
    last.op = "link_target" =>
        /\ (parsed.res = "None") <=> is_none(link.link_info)
        /\ is_some(link.link_info) => parsed.res = "Some"

\* the place of a component in the order of a shell link file
ComponentIndex(c) == CHOOSE i \in 1..Len(Components) : Components[i] = c

\* the components a call of open has read, successfully or not
ReadSet(s) == {s.reads[i].c : i \in 1..Len(s.reads)}

\* C13: open reads the components in the order ShellLinkHeader,
\* LinkTargetIdList, LinkInfo, StringData, ExtraData; the LinkTargetIdList
\* if and only if the header just read sets HAS_LINK_TARGET_ID_LIST, the
\* LinkInfo if and only if it sets HAS_LINK_INFO; no component is read
\* before every earlier read has succeeded; the first failing component ends
\* the call with an error naming it and without an aggregate (and no read
\* follows a panic)
C13_OpenOrder ==
    script.pc \in {Components[i] : i \in 1..Len(Components)} \cup {"Ok", "Err", "Abort"} =>
        LET reads == script.reads
            n == Len(reads)
            flags == IF is_some(file.header) THEN file.header[1].link_flags ELSE {}
            past(c) == script.pc \in {"Ok"} \cup
                         {Components[i] : i \in (ComponentIndex(c) + 1)..Len(Components)}
        IN  /\ \A i \in 1..n, j \in 1..n :
                  i < j => ComponentIndex(reads[i].c) < ComponentIndex(reads[j].c)
            /\ \A i \in 1..(n - 1) : reads[i].ok
            /\ n > 0 => reads[1].c = "ShellLinkHeader"
            /\ "LinkTargetIdList" \in ReadSet(script)
                  => "HAS_LINK_TARGET_ID_LIST" \in flags
            /\ "LinkInfo" \in ReadSet(script) => "HAS_LINK_INFO" \in flags
            /\ past("LinkTargetIdList") =>
                  ("LinkTargetIdList" \in ReadSet(script)
                      <=> "HAS_LINK_TARGET_ID_LIST" \in flags)
            /\ past("LinkInfo") =>
                  ("LinkInfo" \in ReadSet(script) <=> "HAS_LINK_INFO" \in flags)
            /\ past("StringData") => "StringData" \in ReadSet(script)
            /\ script.pc = "Ok" =>
                  /\ "ExtraData" \in ReadSet(script)
                  /\ reads[n].ok
                  /\ last = [op |-> "open", res |-> "Ok", ctx |-> ""]
                  /\ link = script.link
            /\ (n > 0 /\ ~reads[n].ok) <=> script.pc \in {"Err", "Abort"}
            /\ script.pc = "Err" =>
                  /\ last.op = "open"
                  /\ last.res \in {"UnexpectedEof", "BinReadError"}
                  /\ last.ctx = reads[n].c
                  /\ link = default({})
            /\ script.pc = "Abort" =>
                  /\ last = [op |-> "open", res |-> "panic", ctx |-> reads[n].c]
                  /\ link = default({})
            /\ script.pc \in {"Ok", "Err", "Abort"} =>
                  LET o == open_outcome(file, script.encoding, script.overflow_checks,
                                        script.backtrace)
                  IN  /\ last.res = o.res
                      /\ last.ctx = o.ctx
                      /\ link = o.link

\* C13 witness: open of a file with a LinkInfo and no LinkTargetIdList ended
\* Ok after reading the header, the LinkInfo, the StringData and the
\* ExtraData, in that order
C13_Witness ==
    /\ script.pc = "Ok"
    /\ [i \in 1..Len(script.reads) |-> script.reads[i].c]
          = <<"ShellLinkHeader", "LinkInfo", "StringData", "ExtraData">>
    /\ is_some(link.link_info)
    /\ is_none(link.linktarget_id_list)
    /\ link.extra_data /= <<>>

\* the count in front of the name of a file
NameCount(f) == u16_read_le(f.body[1].v, f.body[2].v)

\* the number of bytes the format puts after the count of the name: two per
\* character in a Unicode link, one in a code-page link
NameBytes(f, encoding) ==
    IF StringEncoding_from(f.header[1].link_flags, encoding).tag = "Unicode"
    THEN 2 * NameCount(f)
    ELSE NameCount(f)

\* whether the file holds every byte of its name and they are not valid in
\* the resolved encoding
NameInvalid(f, encoding) ==
    /\ HasBytes(f.body, 1, 2)
    /\ HasBytes(f.body, 3, NameBytes(f, encoding))
    /\ decode_without_bom_handling(
           StringEncoding_encoding(StringEncoding_from(f.header[1].link_flags, encoding)),
           BytesAt(f.body, 3, NameBytes(f, encoding))).had_errors

\* C14: when the name's flag is set and the bytes after its count are not
\* valid in the resolved encoding, parse_sized_string returns an error, not a
\* text, and open returns a parse error tagged StringData
C14_InvalidBytesAreAnError ==
    /\ ( /\ script.pc = "name_parsed"
         /\ NameInvalid(file, script.encoding) )
           => parsed.res \in {"AssertFail", "UnexpectedEof"}
    /\ ( /\ script.pc = "opened"
         /\ NameInvalid(file, script.encoding) )
           => /\ last.res \in {"BinReadError", "UnexpectedEof"}
              /\ last.ctx = "StringData"

\* C15: parse_sized_string reads exactly count * 2 bytes after the count in
\* a Unicode link and exactly count bytes in a code-page link, for every
\* count: it ends past them when the file holds them and with
\* UnexpectedEof when it does not
C15_ReadsExactlyCount ==
    ( /\ script.pc = "name_parsed"
      /\ HasBytes(file.body, 1, 2) )
        => IF HasBytes(file.body, 3, NameBytes(file, script.encoding))
           THEN /\ parsed.res \in {"Ok", "AssertFail"}
                /\ parsed.pos = 3 + NameBytes(file, script.encoding)
           ELSE parsed.res = "UnexpectedEof"

\* the number of characters of a text in the resolved encoding: UTF-16 code
\* units in a Unicode link, one per scalar value in a single-byte code page
Characters(e, text) ==
    IF e.tag = "Unicode" THEN Len(Utf16Bytes(text)) \div 2 ELSE Len(text)

\* C16: the count write_sized_string writes is the number of characters of
\* the text in the resolved encoding, and it is followed by count * 2 bytes
\* in a Unicode link and by count bytes in a code-page link; a field whose
\* flag is clear writes no bytes
C16_CountIsCharacters ==
    ( /\ script.pc = "written"
      /\ last = [op |-> "write_sized_string", res |-> "Ok", ctx |-> ""] )
        => IF "HAS_NAME" \in link.header.link_flags
           THEN LET e == StringEncoding_from(link.header.link_flags, link.encoding)
                    count == u16_read_le(file.body[1].v, file.body[2].v)
                IN  /\ count = Characters(e, link.string_data.name_string[1])
                    /\ Len(file.body) - 2
                         = IF e.tag = "Unicode" THEN count * 2 ELSE count
           ELSE Len(file.body) = 0

====
